---- MODULE Spec2Model ----
(***************************************************************************)
(* Model of the SVG annotation pipeline: the markup editor (the pure text  *)
(* transforms of addDescriptionToSvg, hasDescTag, extractDescTag), the     *)
(* grouped batch driver with its catalog builder, and the flat batch       *)
(* driver.  Text is modelled character by character: a text is a TLA+      *)
(* string, Ch(s, i) its i-th character.                                    *)
(***************************************************************************)
EXTENDS Integers, Sequences, FiniteSets, TLC

VARIABLES
    content,      \* editor: the markup being edited
    orig,         \* editor: the markup before any insertion
    texts,        \* editor: the description texts inserted so far, in order
    disk,         \* the root directory: its entries in listing order
    catalog,      \* the file at CATALOG_PATH: whether it exists, and its text
    pc,           \* where main is: the await it is suspended at
    started,      \* main has listed the root directory
    ci,           \* index of the current root entry (for ... of categories)
    fi,           \* index of the current file among svgFiles
    svgContent,   \* the content read for the current item
    description,  \* the text describeImage returned for the current item
    entries,      \* the catalog entries of the current category
    catalogData,  \* the Map of main: [category, entries] in insertion order
    lines,        \* the lines generateCatalog joined in this run
    catalogWrites,\* how many times this run wrote CATALOG_PATH
    calls,        \* the steps taken for the current item, in order
    log,          \* how each item of this run ended: <<outcome, category, file>>
    rerun,        \* this is the second run over the directory
    prevDisk,     \* the root directory as the first run left it
    prevCatalog,  \* the catalog file as the first run left it
    prevLog,      \* how each item of the first run ended
    prevDone      \* the first run reached its end

editorVars == <<content, orig, texts>>
memVars == <<pc, started, ci, fi, svgContent, description, entries, catalogData>>
histVars == <<lines, catalogWrites, calls, log, rerun, prevDisk, prevCatalog, prevLog, prevDone>>
pipeVars == <<disk, catalog, memVars, histVars>>
vars == <<editorVars, pipeVars>>

(***************************************************************************)
(* Characters and literal matching                                         *)
(***************************************************************************)
Ch(s, i) == SubSeq(s, i, i)

From(s, i) == SubSeq(s, i, Len(s))

\* Case folding of the i flag, for the letters the patterns contain.
Fold(c) ==
    CASE c = "S" -> "s"
      [] c = "V" -> "v"
      [] c = "G" -> "g"
      [] c = "D" -> "d"
      [] c = "E" -> "e"
      [] c = "C" -> "c"
      [] OTHER -> c

\* The literal pat (lower case) matches s at position i, ignoring case.
MatchAt(s, i, pat) ==
    /\ i >= 1
    /\ i + Len(pat) - 1 <= Len(s)
    /\ \A k \in 1..Len(pat) : Fold(Ch(s, i + k - 1)) = Ch(pat, k)

\* The least position >= from at which pat matches, 0 when there is none.
RECURSIVE IndexOf(_, _, _)
IndexOf(s, pat, from) ==
    IF from + Len(pat) - 1 > Len(s) THEN 0
    ELSE IF MatchAt(s, from, pat) THEN from
    ELSE IndexOf(s, pat, from + 1)

\* \s of the regular expressions.
IsSpace(c) == c \in {" ", "\n", "\t", "\r"}

\* The first position >= from that holds no white space (\s* is greedy).
RECURSIVE SkipSpace(_, _)
SkipSpace(s, from) ==
    IF from <= Len(s) /\ IsSpace(Ch(s, from)) THEN SkipSpace(s, from + 1)
    ELSE from

\* String.prototype.replace(/ch/g, rep) for a one-character pattern and a
\* replacement text without $ patterns.
RECURSIVE ReplaceAll(_, _, _)
ReplaceAll(s, ch, rep) ==
    IF s = "" THEN ""
    ELSE (IF Ch(s, 1) = ch THEN rep ELSE Ch(s, 1)) \o ReplaceAll(Tail(s), ch, rep)

(***************************************************************************)
(* Markup editor                                                           *)
(***************************************************************************)
NoMatch == [start |-> 0, close |-> 0]

\* The leftmost match of /<desc>[\s\S]*?<\/desc>/i at or after from: where
\* the opening tag starts and where the closing tag starts.  The lazy
\* body ends at the first closing tag after the opening tag.
DescMatch(s, from) ==
    LET i == IndexOf(s, "<desc>", from)
        j == IF i = 0 THEN 0 ELSE IndexOf(s, "</desc>", i + 6)
    IN  IF j = 0 THEN NoMatch ELSE [start |-> i, close |-> j]

\* A stricter variant: a description element counts only with some text in it.
hasDescTagNonEmpty(s) ==
    LET m == DescMatch(s, 1)
    IN  m.start # 0 /\ m.close > m.start + 6

hasDescTag(s) == DescMatch(s, 1).start # 0

Null == [match |-> FALSE]

\* A variant that returns the whole match instead of its capture group.
extractDescTagWhole(s) ==
    LET m == DescMatch(s, 1)
    IN  IF m.start = 0 THEN Null
        ELSE [match |-> TRUE, text |-> SubSeq(s, m.start, m.close + 6)]

extractDescTag(s) ==
    LET m == DescMatch(s, 1)
    IN  IF m.start = 0 THEN Null
        ELSE [match |-> TRUE, text |-> SubSeq(s, m.start + 6, m.close - 1)]

\* if (description): a match with a non-empty text.
Truthy(d) == d.match /\ d.text # ""

\* A variant that replaces the ampersand last.
escapeTextAmpLast(t) ==
    ReplaceAll(ReplaceAll(ReplaceAll(t, "<", "&lt;"), ">", "&gt;"), "&", "&amp;")

escapeText(t) ==
    ReplaceAll(ReplaceAll(ReplaceAll(t, "&", "&amp;"), "<", "&lt;"), ">", "&gt;")

\* svgContent.replace(/<desc>[\s\S]*?<\/desc>\s*/gi, ""), from position from on.
RECURSIVE StripFrom(_, _)
StripFrom(s, from) ==
    LET m == DescMatch(s, from)
    IN  IF m.start = 0 THEN From(s, from)
        ELSE SubSeq(s, from, m.start - 1) \o StripFrom(s, SkipSpace(s, m.close + 7))

stripDescription(s) == StripFrom(s, 1)

Digits == {"0", "1", "2", "3", "4", "5", "6", "7", "8", "9"}

DigitVal(c) == CHOOSE n \in 0..9 : Ch("0123456789", n + 1) = c

\* How many characters of a replacement template starting with $ form a
\* pattern, with one capture group: 0 when the $ is literal.
PatternLen(t) ==
    LET c2 == Ch(t, 2)
        c3 == Ch(t, 3)
    IN  IF Len(t) < 2 THEN 0
        ELSE IF c2 \in {"$", "&", "'"} THEN 2
        ELSE IF c2 \in Digits
             THEN IF Len(t) >= 3 /\ c3 \in Digits /\ 10 * DigitVal(c2) + DigitVal(c3) = 1
                  THEN 3
                  ELSE IF DigitVal(c2) = 1 THEN 2 ELSE 0
        ELSE 0

\* GetSubstitution of String.prototype.replace for a pattern with exactly
\* one capture group that spans the whole match: $$ is a dollar sign, $&
\* and $1 and $01 the matched text, $' the text after the match; any other
\* $ stands for itself.  (The text before the match, selected by a dollar
\* sign followed by a grave accent, is outside the alphabet of the model.)
RECURSIVE GetSubstitution(_, _, _)
GetSubstitution(t, matched, after) ==
    IF t = "" THEN ""
    ELSE IF Ch(t, 1) # "$" \/ PatternLen(t) = 0
         THEN Ch(t, 1) \o GetSubstitution(Tail(t), matched, after)
    ELSE LET c2 == Ch(t, 2)
             sub == CASE c2 = "$" -> "$"
                      [] c2 = "'" -> after
                      [] OTHER -> matched
         IN  sub \o GetSubstitution(From(t, PatternLen(t) + 1), matched, after)

\* The leftmost match of /(<svg[^>]*>)/i: where it starts and where its
\* closing > is; start 0 when there is none.
SvgMatch(s) ==
    LET i == IndexOf(s, "<svg", 1)
        k == IF i = 0 THEN 0 ELSE IndexOf(s, ">", i + 4)
    IN  IF k = 0 THEN NoMatch ELSE [start |-> i, close |-> k]

\* A variant that puts the element in front when there is no root opening tag.
ReplaceSvgOrPrepend(s, template) ==
    LET m == SvgMatch(s)
    IN  IF m.start = 0 THEN GetSubstitution(template, "", s) \o s
        ELSE SubSeq(s, 1, m.start - 1)
             \o GetSubstitution(template, SubSeq(s, m.start, m.close), From(s, m.close + 1))
             \o From(s, m.close + 1)

\* withoutDesc.replace(/(<svg[^>]*>)/i, template): the first match only.
ReplaceSvg(s, template) ==
    LET m == SvgMatch(s)
    IN  IF m.start = 0 THEN s
        ELSE SubSeq(s, 1, m.start - 1)
             \o GetSubstitution(template, SubSeq(s, m.start, m.close), From(s, m.close + 1))
             \o From(s, m.close + 1)

addDescriptionToSvg(s, t) ==
    LET escapedDesc == escapeText(t)
        withoutDesc == stripDescription(s)
    IN  ReplaceSvg(withoutDesc, "$1\n  <desc>" \o escapedDesc \o "</desc>")

(***************************************************************************)
(* Names: extension filter, item name, category title, name ordering       *)
(***************************************************************************)
LowerLetters == "abcdefghijklmnopqrstuvwxyz"
UpperLetters == "ABCDEFGHIJKLMNOPQRSTUVWXYZ"

IsUpper(c) == \E n \in 1..26 : Ch(UpperLetters, n) = c
IsLower(c) == \E n \in 1..26 : Ch(LowerLetters, n) = c

\* toUpperCase of one character.
ToUpper(c) ==
    IF IsLower(c) THEN Ch(UpperLetters, CHOOSE n \in 1..26 : Ch(LowerLetters, n) = c)
    ELSE c

\* f.endsWith(".svg")
EndsWithSvg(f) == Len(f) >= 4 /\ SubSeq(f, Len(f) - 3, Len(f)) = ".svg"

\* basename(svgFile, ".svg") of a file name that holds no path separator.
basename(svgFile) ==
    IF EndsWithSvg(svgFile) THEN SubSeq(svgFile, 1, Len(svgFile) - 4) ELSE svgFile

\* category.charAt(0).toUpperCase() + category.slice(1)
Title(category) ==
    IF category = "" THEN "" ELSE ToUpper(Ch(category, 1)) \o Tail(category)

\* The primary weight of a character in the collation of localeCompare:
\* letters by their place in the alphabet whatever their case, any other
\* character before them.
Rank(c) ==
    IF IsLower(c) THEN CHOOSE n \in 1..26 : Ch(LowerLetters, n) = c
    ELSE IF IsUpper(c) THEN CHOOSE n \in 1..26 : Ch(UpperLetters, n) = c
    ELSE 0

\* The order of two texts by primary weight: -1, 0 or 1.
RECURSIVE PrimaryCompare(_, _)
PrimaryCompare(a, b) ==
    IF a = "" THEN (IF b = "" THEN 0 ELSE -1)
    ELSE IF b = "" THEN 1
    ELSE IF Rank(Ch(a, 1)) < Rank(Ch(b, 1)) THEN -1
    ELSE IF Rank(Ch(a, 1)) > Rank(Ch(b, 1)) THEN 1
    ELSE PrimaryCompare(Tail(a), Tail(b))

\* The order of two texts of equal primary weight by case: at the first
\* difference the lower-case letter comes first.
RECURSIVE CaseCompare(_, _)
CaseCompare(a, b) ==
    IF a = "" \/ b = "" THEN 0
    ELSE IF Ch(a, 1) = Ch(b, 1) THEN CaseCompare(Tail(a), Tail(b))
    ELSE IF IsLower(Ch(a, 1)) THEN -1
    ELSE 1

\* a.localeCompare(b) for names made of unaccented letters.
localeCompare(a, b) ==
    IF PrimaryCompare(a, b) # 0 THEN PrimaryCompare(a, b) ELSE CaseCompare(a, b)

(***************************************************************************)
(* Catalog builder                                                         *)
(***************************************************************************)
\* One step of a stable sort: e placed after the entries not greater than it.
RECURSIVE InsertSorted(_, _)
InsertSorted(e, sorted) ==
    IF sorted = <<>> THEN <<e>>
    ELSE IF localeCompare(e.name, Head(sorted).name) < 0 THEN <<e>> \o sorted
    ELSE <<Head(sorted)>> \o InsertSorted(e, Tail(sorted))

\* A variant that leaves the entries in the order they were collected in.
SortEntriesKept(es) == es

\* entries.sort((a, b) => a.name.localeCompare(b.name)): a stable sort.
RECURSIVE SortEntries(_)
SortEntries(es) ==
    IF es = <<>> THEN <<>>
    ELSE InsertSorted(es[Len(es)], SortEntries(SubSeq(es, 1, Len(es) - 1)))

EntryLine(entry) == "- **" \o entry.name \o "**: " \o entry.description

\* The lines generateCatalog pushes for one category.
SectionLines(section) ==
    <<"## " \o Title(section.category) \o "\n">>
    \o [k \in 1..Len(section.entries) |-> EntryLine(SortEntries(section.entries)[k])]
    \o <<"">>

\* The lines array of generateCatalog after its loop.
RECURSIVE CatalogLines(_)
CatalogLines(categories) ==
    IF categories = <<>> THEN <<>>
    ELSE SectionLines(Head(categories)) \o CatalogLines(Tail(categories))

\* lines.join("\n")
RECURSIVE Join(_)
Join(ls) ==
    IF ls = <<>> THEN ""
    ELSE IF Len(ls) = 1 THEN ls[1]
    ELSE ls[1] \o "\n" \o Join(Tail(ls))

\* A variant that does not store a category without entries.
MapSetNonEmpty(m, category, es) ==
    IF es = <<>> THEN m
    ELSE Append(m, [category |-> category, entries |-> es])

\* catalogData.set(category, entries): a present key keeps its place.
MapSet(m, category, es) ==
    IF \E k \in 1..Len(m) : m[k].category = category
    THEN [k \in 1..Len(m) |->
            IF m[k].category = category THEN [category |-> category, entries |-> es]
            ELSE m[k]]
    ELSE Append(m, [category |-> category, entries |-> es])

(***************************************************************************)
(* The directory                                                           *)
(***************************************************************************)
MaxFiles == 2   \* files in the whole tree

\* The names of the root entries, by their place in the listing.
CatNames == <<"pets", "Art">>
SvgNames == <<"banana.svg", "Apple.svg", "cherry.svg", "apple.svg">>
OtherNames == <<"notes.txt", "b.png", "c.SVG", "d.svgz">>

\* What a qualifying file may hold: a root tag and no description, a
\* description, a description without text, no root tag.
FileContents == {"<svg>x", "<svg><desc>old &amp; new</desc>x", "<svg><desc></desc>x", "<s:svg>x"}

Descriptions == {"", "a cat", "a&b", "$&"}

\* The files of one directory, k of them, named by their place in the
\* listing: qualifying files holding one of contents, and other files.
RECURSIVE FileListsOf(_, _)
FileListsOf(k, contents) ==
    IF k = 0 THEN {<<>>}
    ELSE {Append(fs, f) :
            fs \in FileListsOf(k - 1, contents),
            f \in {[name |-> SvgNames[k], content |-> c] : c \in contents}
                  \cup {[name |-> OtherNames[k], content |-> "x"]}}

FileLists(k) == FileListsOf(k, FileContents)

File(i) == [name |-> CatNames[i], isDir |-> FALSE, files |-> <<>>]
Dir(i, fs) == [name |-> CatNames[i], isDir |-> TRUE, files |-> fs]

\* The root directories with entries i, i+1, ... onwards and at most budget
\* files below them; a root entry is a directory or a plain file.
RECURSIVE Layouts(_, _)
Layouts(i, budget) ==
    IF i > Len(CatNames) THEN {<<>>}
    ELSE {<<>>}
         \cup {<<File(i)>> \o rest : rest \in Layouts(i + 1, budget)}
         \cup UNION {{<<Dir(i, fs)>> \o rest : fs \in FileLists(k), rest \in Layouts(i + 1, budget - k)} :
                        k \in 0..budget}

Absent == [exists |-> FALSE, text |-> ""]

\* A variant without the filter: every file of the listing is an item.
SvgPlacesAll(files, k) == [n \in k..Len(files) |-> n]

\* files.filter((f) => f.endsWith(".svg")), as places in the listing.
RECURSIVE SvgPlaces(_, _)
SvgPlaces(files, k) ==
    IF k > Len(files) THEN <<>>
    ELSE (IF EndsWithSvg(files[k].name) THEN <<k>> ELSE <<>>) \o SvgPlaces(files, k + 1)

svgFiles(i) == SvgPlaces(disk[i].files, 1)

\* The current item: its place in its directory, its file, its names.
Place == svgFiles(ci)[fi]
Item == disk[ci].files[Place]
Category == disk[ci].name

Event(e) == <<e, Category, Item.name>>

(***************************************************************************)
(* Grouped driver: main of the catalog variant                             *)
(***************************************************************************)
FreshMemory ==
    /\ pc = "idle"
    /\ started = FALSE
    /\ ci = 0
    /\ fi = 0
    /\ svgContent = ""
    /\ description = ""
    /\ entries = <<>>
    /\ catalogData = <<>>

FreshHistory ==
    /\ lines = <<>>
    /\ catalogWrites = 0
    /\ calls = <<>>
    /\ log = {}
    /\ rerun = FALSE
    /\ prevDisk = <<>>
    /\ prevCatalog = Absent
    /\ prevLog = {}
    /\ prevDone = FALSE

\* The pipeline at rest, for the specifications that do not run it.
PipeIdle ==
    /\ disk = <<>>
    /\ catalog = Absent
    /\ FreshMemory
    /\ FreshHistory

Init ==
    /\ content = ""
    /\ orig = ""
    /\ texts = <<>>
    /\ disk \in Layouts(1, MaxFiles)
    /\ catalog = Absent
    /\ FreshMemory
    /\ FreshHistory

\* const categories = await readdir(SVG_DIR): a failure rejects main.
Start ==
    /\ pc = "idle"
    /\ \E ok \in BOOLEAN :
        IF ok
        THEN /\ started' = TRUE
             /\ ci' = 1
             /\ pc' = IF Len(disk) = 0 THEN "catalog" ELSE "category"
        ELSE /\ pc' = "aborted"
             /\ UNCHANGED <<started, ci>>
    /\ UNCHANGED <<fi, svgContent, description, entries, catalogData>>
    /\ UNCHANGED <<editorVars, disk, catalog, histVars>>

\* The head of the outer loop: readdir(categoryPath), the filter, and the
\* continue of a category without a qualifying file.  The listing raises
\* for an entry that is no directory, and main has no handler around it.
ListCategory ==
    /\ pc = "category"
    /\ IF ~disk[ci].isDir
       THEN /\ pc' = "aborted"
            /\ UNCHANGED <<ci, fi, entries>>
       ELSE IF Len(svgFiles(ci)) = 0
       THEN /\ ci' = ci + 1
            /\ pc' = IF ci = Len(disk) THEN "catalog" ELSE "category"
            /\ UNCHANGED <<fi, entries>>
       ELSE /\ entries' = <<>>
            /\ fi' = 1
            /\ pc' = "read"
            /\ UNCHANGED ci
    /\ UNCHANGED <<started, svgContent, description, catalogData>>
    /\ UNCHANGED <<editorVars, disk, catalog, histVars>>

\* The end of one pass of the inner loop with es collected so far: the next
\* file, or catalogData.set(category, entries) and the next category.
NextItem(es) ==
    /\ entries' = es
    /\ svgContent' = ""
    /\ description' = ""
    /\ calls' = <<>>
    /\ IF fi < Len(svgFiles(ci))
       THEN /\ fi' = fi + 1
            /\ pc' = "read"
            /\ UNCHANGED <<ci, catalogData>>
       ELSE /\ catalogData' = MapSet(catalogData, Category, es)
            /\ fi' = 0
            /\ ci' = ci + 1
            /\ pc' = IF ci = Len(disk) THEN "catalog" ELSE "category"
    /\ UNCHANGED started

\* readFile, then the hasDescTag branch: an item with a description is
\* skipped and contributes the extracted text when it is not empty.
ReadItem ==
    /\ pc = "read"
    /\ \E ok \in BOOLEAN :
        IF ~ok
        THEN /\ log' = log \cup {Event("failed")}
             /\ NextItem(entries)
        ELSE IF hasDescTag(Item.content)
        THEN LET d == extractDescTag(Item.content)
             IN  /\ log' = log \cup {Event("skipped")}
                 /\ NextItem(IF Truthy(d)
                             THEN Append(entries, [name |-> basename(Item.name), description |-> d.text])
                             ELSE entries)
        ELSE /\ calls' = <<"read">>
             /\ svgContent' = Item.content
             /\ pc' = "rasterize"
             /\ UNCHANGED <<started, ci, fi, description, entries, catalogData, log>>
    /\ UNCHANGED <<editorVars, disk, catalog>>
    /\ UNCHANGED <<lines, catalogWrites, rerun, prevDisk, prevCatalog, prevLog, prevDone>>

\* const pngBuffer = await svgToPng(svgBuffer)
Rasterize ==
    /\ pc = "rasterize"
    /\ \E ok \in BOOLEAN :
        IF ok
        THEN /\ calls' = Append(calls, "rasterize")
             /\ pc' = "describe"
             /\ UNCHANGED <<started, ci, fi, svgContent, description, entries, catalogData, log>>
        ELSE /\ log' = log \cup {Event("failed")}
             /\ NextItem(entries)
    /\ UNCHANGED <<editorVars, disk, catalog>>
    /\ UNCHANGED <<lines, catalogWrites, rerun, prevDisk, prevCatalog, prevLog, prevDone>>

\* A variant that, when the description service raises, writes the file
\* with an empty description before the item fails.
DescribeOrBlank ==
    /\ pc = "describe"
    /\ \/ /\ \E d \in Descriptions :
                /\ description' = d
                /\ calls' = Append(calls, "describe")
                /\ pc' = "write"
                /\ UNCHANGED <<started, ci, fi, svgContent, entries, catalogData, log>>
          /\ UNCHANGED disk
       \/ /\ disk' = [disk EXCEPT ![ci].files[Place].content = addDescriptionToSvg(svgContent, "")]
          /\ log' = log \cup {Event("failed")}
          /\ NextItem(entries)
    /\ UNCHANGED <<editorVars, catalog>>
    /\ UNCHANGED <<lines, catalogWrites, rerun, prevDisk, prevCatalog, prevLog, prevDone>>

\* const description = await describeImage(pngBuffer)
Describe ==
    /\ pc = "describe"
    /\ \/ \E d \in Descriptions :
            /\ description' = d
            /\ calls' = Append(calls, "describe")
            /\ pc' = "write"
            /\ UNCHANGED <<started, ci, fi, svgContent, entries, catalogData, log>>
       \/ /\ log' = log \cup {Event("failed")}
          /\ NextItem(entries)
    /\ UNCHANGED <<editorVars, disk, catalog>>
    /\ UNCHANGED <<lines, catalogWrites, rerun, prevDisk, prevCatalog, prevLog, prevDone>>

\* The disk with the current item's file holding text.
WriteItem(text) ==
    [disk EXCEPT ![ci].files[Place].content = text]

\* addDescriptionToSvg, writeFile(svgPath, updatedSvg) and entries.push.
Write ==
    /\ pc = "write"
    /\ \E ok \in BOOLEAN :
        IF ok
        THEN /\ disk' = WriteItem(addDescriptionToSvg(svgContent, description))
             /\ log' = log \cup {Event("persisted")}
             /\ NextItem(Append(entries, [name |-> basename(Item.name), description |-> description]))
        ELSE /\ log' = log \cup {Event("failed")}
             /\ NextItem(entries)
             /\ UNCHANGED disk
    /\ UNCHANGED <<editorVars, catalog>>
    /\ UNCHANGED <<lines, catalogWrites, rerun, prevDisk, prevCatalog, prevLog, prevDone>>

\* generateCatalog(catalogData): the lines of every section, then one
\* writeFile; a failure of the write rejects main.
GenerateCatalog ==
    /\ pc = "catalog"
    /\ lines' = CatalogLines(catalogData)
    /\ catalogData' = [k \in 1..Len(catalogData) |->
                          [catalogData[k] EXCEPT !.entries = SortEntries(@)]]
    /\ \E ok \in BOOLEAN :
        IF ok
        THEN /\ catalog' = [exists |-> TRUE, text |-> Join(lines')]
             /\ catalogWrites' = catalogWrites + 1
             /\ pc' = "done"
        ELSE /\ pc' = "aborted"
             /\ UNCHANGED <<catalog, catalogWrites>>
    /\ UNCHANGED <<started, ci, fi, svgContent, description, entries>>
    /\ UNCHANGED <<editorVars, disk>>
    /\ UNCHANGED <<calls, log, rerun, prevDisk, prevCatalog, prevLog, prevDone>>

Running == pc \in {"category", "read", "rasterize", "describe", "write", "catalog"}

\* The process is terminated at an await: its memory is gone, the files
\* stay as they are.
Kill ==
    /\ Running
    /\ pc' = "killed"
    /\ ci' = 0
    /\ fi' = 0
    /\ svgContent' = ""
    /\ description' = ""
    /\ entries' = <<>>
    /\ catalogData' = <<>>
    /\ calls' = <<>>
    /\ UNCHANGED started
    /\ UNCHANGED <<editorVars, disk, catalog>>
    /\ UNCHANGED <<lines, catalogWrites, log, rerun, prevDisk, prevCatalog, prevLog, prevDone>>

\* The program is run a second time over the directory as the first run
\* left it.
Rerun ==
    /\ pc \in {"done", "aborted", "killed"}
    /\ ~rerun
    /\ rerun' = TRUE
    /\ prevDisk' = disk
    /\ prevCatalog' = catalog
    /\ prevLog' = log
    /\ prevDone' = (pc = "done")
    /\ pc' = "idle"
    /\ started' = FALSE
    /\ ci' = 0
    /\ fi' = 0
    /\ svgContent' = ""
    /\ description' = ""
    /\ entries' = <<>>
    /\ catalogData' = <<>>
    /\ lines' = <<>>
    /\ catalogWrites' = 0
    /\ calls' = <<>>
    /\ log' = {}
    /\ UNCHANGED <<editorVars, disk, catalog>>

\* One run of the grouped driver over every directory within the bounds.
Next ==
    \/ Start
    \/ ListCategory
    \/ ReadItem
    \/ Rasterize
    \/ Describe
    \/ Write
    \/ GenerateCatalog

Spec == Init /\ [][Next]_vars

\* Two runs in a row, the first possibly cut short, over one category
\* directory.
MaxRerunFiles == 2

\* What the files hold before the first run: only a file without
\* description element is ever written back.
RerunContents == {"<svg>x", "<s:svg>x"}

RerunLayouts ==
    {<<Dir(1, fs)>> : fs \in UNION {FileListsOf(k, RerunContents) : k \in 0..MaxRerunFiles}}

InitRerun ==
    /\ content = ""
    /\ orig = ""
    /\ texts = <<>>
    /\ disk \in RerunLayouts
    /\ catalog = Absent
    /\ FreshMemory
    /\ FreshHistory

NextRerun ==
    \/ Start
    \/ ListCategory
    \/ ReadItem
    \/ Rasterize
    \/ Describe
    \/ Write
    \/ GenerateCatalog
    \/ Kill
    \/ Rerun

SpecRerun == InitRerun /\ [][NextRerun]_vars

(***************************************************************************)
(* Flat driver: main of index.ts                                           *)
(***************************************************************************)
\* SVG_DIR itself, holding the files: the one directory the flat driver lists.
FlatRoot(fs) == [name |-> "", isDir |-> TRUE, files |-> fs]

InitFlat ==
    /\ content = ""
    /\ orig = ""
    /\ texts = <<>>
    /\ disk \in {<<FlatRoot(fs)>> : fs \in UNION {FileLists(k) : k \in 0..MaxFiles}}
    /\ catalog = Absent
    /\ FreshMemory
    /\ FreshHistory

\* readdir(SVG_DIR) and the filter; the loop starts at the first file.
FlatStart ==
    /\ pc = "idle"
    /\ \E ok \in BOOLEAN :
        IF ok
        THEN /\ started' = TRUE
             /\ ci' = 1
             /\ fi' = IF Len(svgFiles(1)) = 0 THEN 0 ELSE 1
             /\ pc' = IF Len(svgFiles(1)) = 0 THEN "done" ELSE "read"
        ELSE /\ pc' = "aborted"
             /\ UNCHANGED <<started, ci, fi>>
    /\ UNCHANGED <<svgContent, description, entries, catalogData>>
    /\ UNCHANGED <<editorVars, disk, catalog, histVars>>

\* The end of one pass of the loop: the next file, or the end of main.
FlatNextItem ==
    /\ svgContent' = ""
    /\ description' = ""
    /\ calls' = <<>>
    /\ IF fi < Len(svgFiles(ci))
       THEN /\ fi' = fi + 1
            /\ pc' = "read"
       ELSE /\ fi' = 0
            /\ pc' = "done"
    /\ UNCHANGED <<started, ci, entries, catalogData>>

\* readFile: every file read goes on to the rasterizer.
FlatRead ==
    /\ pc = "read"
    /\ \E ok \in BOOLEAN :
        IF ok
        THEN /\ calls' = <<"read">>
             /\ svgContent' = Item.content
             /\ pc' = "rasterize"
             /\ UNCHANGED <<started, ci, fi, description, entries, catalogData, log>>
        ELSE /\ log' = log \cup {Event("failed")}
             /\ FlatNextItem
    /\ UNCHANGED <<editorVars, disk, catalog>>
    /\ UNCHANGED <<lines, catalogWrites, rerun, prevDisk, prevCatalog, prevLog, prevDone>>

FlatRasterize ==
    /\ pc = "rasterize"
    /\ \E ok \in BOOLEAN :
        IF ok
        THEN /\ calls' = Append(calls, "rasterize")
             /\ pc' = "describe"
             /\ UNCHANGED <<started, ci, fi, svgContent, description, entries, catalogData, log>>
        ELSE /\ log' = log \cup {Event("failed")}
             /\ FlatNextItem
    /\ UNCHANGED <<editorVars, disk, catalog>>
    /\ UNCHANGED <<lines, catalogWrites, rerun, prevDisk, prevCatalog, prevLog, prevDone>>

FlatDescribe ==
    /\ pc = "describe"
    /\ \/ \E d \in Descriptions :
            /\ description' = d
            /\ calls' = Append(calls, "describe")
            /\ pc' = "write"
            /\ UNCHANGED <<started, ci, fi, svgContent, entries, catalogData, log>>
       \/ /\ log' = log \cup {Event("failed")}
          /\ FlatNextItem
    /\ UNCHANGED <<editorVars, disk, catalog>>
    /\ UNCHANGED <<lines, catalogWrites, rerun, prevDisk, prevCatalog, prevLog, prevDone>>

FlatWrite ==
    /\ pc = "write"
    /\ \E ok \in BOOLEAN :
        IF ok
        THEN /\ disk' = WriteItem(addDescriptionToSvg(svgContent, description))
             /\ log' = log \cup {Event("persisted")}
             /\ FlatNextItem
        ELSE /\ log' = log \cup {Event("failed")}
             /\ FlatNextItem
             /\ UNCHANGED disk
    /\ UNCHANGED <<editorVars, catalog>>
    /\ UNCHANGED <<lines, catalogWrites, rerun, prevDisk, prevCatalog, prevLog, prevDone>>

NextFlat ==
    \/ FlatStart
    \/ FlatRead
    \/ FlatRasterize
    \/ FlatDescribe
    \/ FlatWrite

SpecFlat == InitFlat /\ [][NextFlat]_vars

(***************************************************************************)
(* Either program run once: the grouped driver over a root of categories,  *)
(* or the flat driver over SVG_DIR holding the files                       *)
(***************************************************************************)
\* Which program is running, told by what the root directory is.
FlatMode == Len(disk) = 1 /\ disk[1].name = ""
GroupedMode == ~FlatMode

InitModes == Init \/ InitFlat

GroupedStep == GroupedMode /\ Next
FlatStep == FlatMode /\ NextFlat

NextModes ==
    \/ GroupedStep
    \/ FlatStep

SpecModes == InitModes /\ [][NextModes]_vars

(***************************************************************************)
(* Editor specification: insertions applied to a bounded set of markups    *)
(***************************************************************************)
MaxChunks == 2
MaxInserts == 2

ContentChunks == {"<svg>", "<SVG a>", "<desc>", "</desc>", "<Desc>x</DESC> ", "x"}

RECURSIVE ChunkTexts(_)
ChunkTexts(n) ==
    IF n = 0 THEN {""}
    ELSE LET shorter == ChunkTexts(n - 1)
         IN  shorter \cup {s \o c : s \in shorter, c \in ContentChunks}

Contents == ChunkTexts(MaxChunks)

DescTexts == {"", "a", "a&b", "<b>", "$&", "$10", "$'", "$$"}

InitEditor ==
    /\ content \in Contents
    /\ orig = content
    /\ texts = <<>>
    /\ PipeIdle

InsertDescription ==
    /\ Len(texts) < MaxInserts
    /\ \E t \in DescTexts :
        /\ content' = addDescriptionToSvg(content, t)
        /\ texts' = Append(texts, t)
    /\ UNCHANGED <<orig, pipeVars>>

NextEditor == InsertDescription

SpecEditor == InitEditor /\ [][NextEditor]_vars

(***************************************************************************)
(* Catalog specification: generateCatalog applied to entries collected in  *)
(* every order                                                             *)
(***************************************************************************)
MaxEntries == 3

EntryNames == {"banana", "Apple", "cherry", "apple"}
EntryTexts == {"a cat", "a&amp;b"}

\* The entries of one category, at most n of them, in every order in which
\* they may have been collected; the names within a category are distinct.
RECURSIVE EntryLists(_)
EntryLists(n) ==
    IF n = 0 THEN {<<>>}
    ELSE LET shorter == EntryLists(n - 1)
             longer == {Append(es, [name |-> nm, description |-> d]) :
                          es \in {e \in shorter : Len(e) = n - 1},
                          nm \in EntryNames,
                          d \in EntryTexts}
         IN  shorter \cup
             {es \in longer : \A a, b \in 1..n : a # b => es[a].name # es[b].name}

\* The Map handed to generateCatalog: the category pets with its entries,
\* alone or after a category stored before it.
CatalogInputs ==
    {<<[category |-> "pets", entries |-> es]>> : es \in EntryLists(MaxEntries)}
    \cup {<<[category |-> "Art", entries |-> <<[name |-> "sun", description |-> "a sun"]>>],
           [category |-> "pets", entries |-> es]>> : es \in EntryLists(MaxEntries)}

\* main after its outer loop, about to call generateCatalog(catalogData);
\* entries is the array collected for the last category.
InitCatalog ==
    /\ content = ""
    /\ orig = ""
    /\ texts = <<>>
    /\ disk = <<>>
    /\ catalog = Absent
    /\ pc = "catalog"
    /\ started = TRUE
    /\ ci = 1
    /\ fi = 0
    /\ svgContent = ""
    /\ description = ""
    /\ catalogData \in CatalogInputs
    /\ entries = catalogData[Len(catalogData)].entries
    /\ FreshHistory

NextCatalog == GenerateCatalog

SpecCatalog == InitCatalog /\ [][NextCatalog]_vars

(***************************************************************************)
(* Escaping specification: escapedDesc computed for every short text       *)
(***************************************************************************)
MaxTextLen == 3

TextChars == {"&", "<", ">", ";", "a"}

RECURSIVE TextsUpTo(_)
TextsUpTo(n) ==
    IF n = 0 THEN {""}
    ELSE LET shorter == TextsUpTo(n - 1)
         IN  shorter \cup {t \o c : t \in shorter, c \in TextChars}

\* addDescriptionToSvg is entered with a description.
InitEscape ==
    /\ content = ""
    /\ orig = ""
    /\ texts = <<>>
    /\ disk = <<>>
    /\ catalog = Absent
    /\ pc = "idle"
    /\ started = FALSE
    /\ ci = 0
    /\ fi = 0
    /\ svgContent = ""
    /\ description \in TextsUpTo(MaxTextLen)
    /\ entries = <<>>
    /\ catalogData = <<>>
    /\ FreshHistory

\* const escapedDesc = description.replace(...).replace(...).replace(...):
\* content takes the escaped text, texts the text it was computed from.
EscapeDescription ==
    /\ texts = <<>>
    /\ texts' = <<description>>
    /\ content' = escapeText(description)
    /\ UNCHANGED <<orig, pipeVars>>

NextEscape == EscapeDescription

SpecEscape == InitEscape /\ [][NextEscape]_vars

(***************************************************************************)
(* Notions the properties are stated in                                    *)
(***************************************************************************)
\* s holds a root opening tag: <svg, then some > after it.
HasRootTag(s) ==
    \E i \in 1..Len(s) :
        /\ MatchAt(s, i, "<svg")
        /\ \E k \in (i + 4)..Len(s) : Ch(s, k) = ">"

\* Where the opening and the closing description tags of s are.
OpenTags(s) == {i \in 1..Len(s) : MatchAt(s, i, "<desc>")}
CloseTags(s) == {j \in 1..Len(s) : MatchAt(s, j, "</desc>")}

Least(S) == CHOOSE x \in S : \A y \in S : x <= y

\* The opening tags at or after from that a closing tag follows.
Openers(s, from) ==
    {i \in OpenTags(s) : i >= from /\ \E j \in CloseTags(s) : j >= i + 6}

\* s holds a description element.
HasDescElement(s) == Openers(s, 1) # {}

\* The description elements of s from position from on, left to right and
\* not overlapping: the inner text of each.
RECURSIVE ElementTexts(_, _)
ElementTexts(s, from) ==
    IF Openers(s, from) = {} THEN <<>>
    ELSE LET i == Least(Openers(s, from))
             j == Least({j \in CloseTags(s) : j >= i + 6})
         IN  <<SubSeq(s, i + 6, j - 1)>> \o ElementTexts(s, j + 7)

\* The inner text of the first description element of s ("" when it has none).
FirstElementText(s) ==
    IF Openers(s, 1) = {} THEN ""
    ELSE LET i == Least(Openers(s, 1))
             j == Least({j \in CloseTags(s) : j >= i + 6})
         IN  SubSeq(s, i + 6, j - 1)

\* A markup with a root opening tag in which every description tag belongs
\* to a description element.
WellFormed(s) ==
    /\ HasRootTag(s)
    /\ HasRootTag(stripDescription(s))
    /\ IndexOf(stripDescription(s), "<desc>", 1) = 0
    /\ IndexOf(stripDescription(s), "</desc>", 1) = 0

\* The qualifying files of root entry i, as places in its listing.
Qualifying(i) ==
    IF disk[i].isDir
    THEN {k \in 1..Len(disk[i].files) : EndsWithSvg(disk[i].files[k].name)}
    ELSE {}

Outcome(o, i, k) == <<o, disk[i].name, disk[i].files[k].name>>

Terminal(i, k) ==
    \E o \in {"skipped", "persisted", "failed"} : Outcome(o, i, k) \in log

BetweenCalls == pc \in {"rasterize", "describe", "write"}

\* main has returned or its promise was rejected: the run ended by itself.
Ended == pc \in {"done", "aborted"}

\* The write of the catalog file itself raised.
CatalogWriteRaised == started /\ pc = "aborted" /\ ci = Len(disk) + 1

IsEntryLine(l) == Len(l) >= 4 /\ SubSeq(l, 1, 4) = "- **"
IsHeading(l) == Len(l) >= 3 /\ SubSeq(l, 1, 3) = "## "

\* The entries collected for root entry i: those of the category in hand,
\* or those stored in catalogData.
EntriesOf(i) ==
    IF i = ci /\ pc \in {"read", "rasterize", "describe", "write"} THEN entries
    ELSE IF \E k \in 1..Len(catalogData) : catalogData[k].category = disk[i].name
    THEN catalogData[CHOOSE k \in 1..Len(catalogData) : catalogData[k].category = disk[i].name].entries
    ELSE <<>>

(***************************************************************************)
(* Properties                                                              *)
(***************************************************************************)
\* C1: two complete runs in a row, with no step raising in either and no
\* empty description element in any file, leave every file as the first
\* run left it and write the same catalog text.
C1_Idempotent ==
    (/\ rerun
     /\ prevDone
     /\ pc = "done"
     /\ \A e \in prevLog \cup log : e[1] # "failed"
     /\ \A i \in 1..Len(disk) : \A k \in Qualifying(i) :
            HasDescElement(disk[i].files[k].content)
            => FirstElementText(disk[i].files[k].content) # "")
    => /\ disk = prevDisk
       /\ catalog = prevCatalog

\* C2 as stated: an item written back by the first run is never handed to
\* the rasterizer, the description service or the write in the second run.
C2_PersistedSkipped ==
    (rerun /\ BetweenCalls) => Event("persisted") \notin prevLog

\* C2 amended: an item the first run wrote back with a root opening tag in
\* it is never handed to the rasterizer, the description service or the
\* write in the second run, and is never written by it.
C2_AnnotatedSkipped ==
    rerun =>
        \A i \in 1..Len(disk) : \A k \in Qualifying(i) :
            (/\ Outcome("persisted", i, k) \in prevLog
             /\ HasRootTag(prevDisk[i].files[k].content))
            => /\ ~(BetweenCalls /\ ci = i /\ Place = k)
               /\ Outcome("persisted", i, k) \notin log
               /\ disk[i].files[k] = prevDisk[i].files[k]

\* A first run killed before its end wrote an item back, and the second run
\* has skipped that item.
C2_Witness ==
    /\ rerun
    /\ ~prevDone
    /\ \E i \in 1..Len(disk) : \E k \in Qualifying(i) :
        /\ Outcome("persisted", i, k) \in prevLog
        /\ HasRootTag(prevDisk[i].files[k].content)
        /\ Outcome("skipped", i, k) \in log

\* C3: an item whose content holds a description element is never handed
\* to the rasterizer, the description service or the write.
C3_DescribedSkipped ==
    BetweenCalls => ~HasDescElement(svgContent)

\* C4: in a run that ended with a failed item, and in which the write of
\* the catalog did not raise, every item has reached a terminal state, the
\* catalog was written, and its entry lines are those of the items that
\* did not fail.
C4_FailureIsolated ==
    (/\ started
     /\ Ended
     /\ ~CatalogWriteRaised
     /\ \E e \in log : e[1] = "failed")
    => /\ \A i \in 1..Len(disk) : \A k \in Qualifying(i) : Terminal(i, k)
       /\ catalogWrites = 1
       /\ catalog.exists
       /\ Cardinality({n \in 1..Len(lines) : IsEntryLine(lines[n])})
            = Cardinality({e \in log :
                             \/ e[1] = "persisted"
                             \/ /\ e[1] = "skipped"
                                /\ \E i \in 1..Len(disk) : \E k \in Qualifying(i) :
                                      /\ e = Outcome("skipped", i, k)
                                      /\ FirstElementText(disk[i].files[k].content) # ""})

\* C5: once the root directory is listed, the run is never rejected
\* (unless by the write of the catalog itself), and when it ends it has
\* written the catalog exactly once, with every item in a terminal state.
C5_NoFatalPath ==
    (started /\ ~CatalogWriteRaised) =>
        /\ pc # "aborted"
        /\ pc = "done" =>
            /\ catalogWrites = 1
            /\ \A i \in 1..Len(disk) : \A k \in Qualifying(i) : Terminal(i, k)

\* C6: after two insertions into a well-formed markup the content holds
\* exactly one description element, and its text is the escaped second text.
C6_SingleDescription ==
    (Len(texts) = 2 /\ WellFormed(orig))
    => ElementTexts(content, 1) = <<escapeText(texts[2])>>

\* C7 as stated: an insertion into a content without a root opening tag
\* returns the content unchanged.
C7_NoRootUnchanged ==
    (Len(texts) = 1 /\ ~HasRootTag(orig)) => content = orig

\* C7 amended: an insertion into a content with neither a root opening tag
\* nor a description element returns the content unchanged.
C7_NoRootNoDescUnchanged ==
    (Len(texts) = 1 /\ ~HasRootTag(orig) /\ ~HasDescElement(orig)) => content = orig

\* An insertion was applied to a content without root opening tag that
\* holds an opening description tag and no description element.
C7_Witness ==
    /\ Len(texts) = 1
    /\ texts[1] # ""
    /\ ~HasRootTag(orig)
    /\ ~HasDescElement(orig)
    /\ IndexOf(orig, "<desc>", 1) # 0
    /\ content = orig

\* C8: after one insertion of a text into a well-formed markup, the
\* description extracted from the content is the escaped text.
C8_EscapingRoundTrip ==
    (Len(texts) = 1 /\ WellFormed(orig))
    => /\ ElementTexts(content, 1) = <<escapeText(texts[1])>>
       /\ extractDescTag(content) = [match |-> TRUE, text |-> escapeText(texts[1])]

\* C9: a skipped item has one entry among those of its category, holding
\* the inner text of its first description element, or none when that text
\* is empty; its line is in the catalog of a run that reached its end; and
\* a run is rejected only by a listing or by the catalog write.
C9_SkippedEntry ==
    /\ \A i \in 1..Len(disk) : \A k \in Qualifying(i) :
        Outcome("skipped", i, k) \in log =>
            LET name == basename(disk[i].files[k].name)
                text == FirstElementText(disk[i].files[k].content)
                mine == {n \in 1..Len(EntriesOf(i)) : EntriesOf(i)[n].name = name}
            IN  /\ HasDescElement(disk[i].files[k].content)
                /\ Cardinality(mine) = (IF text = "" THEN 0 ELSE 1)
                /\ \A n \in mine : EntriesOf(i)[n].description = text
                /\ (pc = "done" /\ text # "") =>
                      \E n \in 1..Len(lines) : lines[n] = "- **" \o name \o "**: " \o text
    /\ (started /\ pc = "aborted") =>
          \/ ci \in 1..Len(disk) /\ ~disk[ci].isDir
          \/ ci = Len(disk) + 1

\* A run reached its end having skipped an item with a description text
\* and an item with an empty description element.
C9_Witness ==
    /\ pc = "done"
    /\ \E i \in 1..Len(disk) : \E k, m \in Qualifying(i) :
        /\ Outcome("skipped", i, k) \in log
        /\ Outcome("skipped", i, m) \in log
        /\ FirstElementText(disk[i].files[k].content) # ""
        /\ FirstElementText(disk[i].files[m].content) = ""
        /\ Len(EntriesOf(i)) = 1

\* The headings among ls, in order.
RECURSIVE Headings(_)
Headings(ls) ==
    IF ls = <<>> THEN <<>>
    ELSE (IF IsHeading(Head(ls)) THEN <<Head(ls)>> ELSE <<>>) \o Headings(Tail(ls))

\* The headings of the categories with a qualifying file, from root entry
\* i on, in listing order.
RECURSIVE ExpectedHeadings(_)
ExpectedHeadings(i) ==
    IF i > Len(disk) THEN <<>>
    ELSE (IF Qualifying(i) # {} THEN <<"## " \o Title(disk[i].name) \o "\n">> ELSE <<>>)
         \o ExpectedHeadings(i + 1)

\* C10: the catalog a run wrote has one section for each category with a
\* qualifying file, in listing order, and no other section.
C10_Sections ==
    pc = "done" =>
        /\ Headings(lines) = ExpectedHeadings(1)
        /\ catalog = [exists |-> TRUE, text |-> Join(lines)]

\* A catalog of two sections was written, the first for a category all of
\* whose items failed.
C10_Witness ==
    /\ pc = "done"
    /\ Len(Headings(lines)) = 2
    /\ Len(disk) = 2
    /\ \A k \in Qualifying(1) : Outcome("failed", 1, k) \in log
    /\ \E k \in Qualifying(2) : Outcome("persisted", 2, k) \in log

\* Where the section of the k-th category starts among the lines: each
\* section before it is a heading, its entry lines and an empty line.
RECURSIVE SectionStart(_, _)
SectionStart(m, k) ==
    IF k = 1 THEN 1
    ELSE SectionStart(m, k - 1) + Len(m[k - 1].entries) + 2

Permuted(es, q) == [n \in 1..Len(es) |-> es[q[n]]]

\* C11: when generateCatalog renders the Map, the entry lines of each
\* section are the entries collected for the category, each exactly once,
\* in ascending order of name under localeCompare, and the section is the
\* same for every order in which the entries could have been collected.
C11_EntryOrder ==
    [][(pc = "catalog" /\ pc' # "catalog") =>
        \A k \in 1..Len(catalogData) :
            LET es == catalogData[k].entries
                n == Len(es)
                at == SectionStart(catalogData, k)
            IN  /\ Len(lines') >= at + n + 1
                /\ IsHeading(lines'[at])
                /\ lines'[at + n + 1] = ""
                /\ \E p \in Permutations(1..n) :
                      /\ \A m \in 1..n : lines'[at + m] = EntryLine(es[p[m]])
                      /\ \A a, b \in 1..n :
                            a < b => localeCompare(es[p[a]].name, es[p[b]].name) <= 0
                /\ \A q \in Permutations(1..n) :
                      SectionLines([category |-> catalogData[k].category,
                                    entries |-> Permuted(es, q)])
                        = SubSeq(lines', at, at + n + 1)]_vars

\* A catalog was written whose last section lists, as Apple, banana,
\* cherry, three entries collected in the order banana, Apple, cherry.
C11_Witness ==
    /\ pc = "done"
    /\ Len(catalogData) = 2
    /\ Len(entries) = 3
    /\ entries[1].name = "banana"
    /\ entries[2].name = "Apple"
    /\ entries[3].name = "cherry"
    /\ SubSeq(lines, 5, 7) = <<EntryLine(entries[2]), EntryLine(entries[1]), EntryLine(entries[3])>>

\* The description element of s sits right after its first root opening
\* tag, white space apart.
ElementAfterRootTag(s) ==
    LET m == SvgMatch(s)
    IN  /\ m.start # 0
        /\ MatchAt(s, SkipSpace(s, m.close + 1), "<desc>")

\* C12: the write of an item whose content holds a root opening tag leaves
\* in its file exactly one description element, right after the first root
\* opening tag, holding the escaped form of the description returned for
\* the item; and no step of a run leaves more than one description element
\* in a file that held at most one.
C12_AnnotatedOnDisk ==
    [][/\ (pc = "write" /\ Event("persisted") \in log' /\ HasRootTag(svgContent)) =>
            LET written == disk'[ci].files[Place].content
            IN  /\ ElementTexts(written, 1) = <<escapeText(description)>>
                /\ ElementAfterRootTag(written)
       /\ \A i \in 1..Len(disk) : \A k \in Qualifying(i) :
            Len(ElementTexts(disk[i].files[k].content, 1)) <= 1
            => Len(ElementTexts(disk'[i].files[k].content, 1)) <= 1]_vars

\* C13: an item is handed to the rasterizer after its read, to the
\* description service after the rasterizer, and to the write after the
\* description service, each once and no item twice in a run; a file
\* changes only by the write of the item in hand, which then is persisted;
\* so the file of an item that failed is as it was when the run started.
C13_WriteAfterSuccess ==
    [][/\ pc = "rasterize" => calls = <<"read">>
       /\ pc = "describe" => calls = <<"read", "rasterize">>
       /\ pc = "write" => calls = <<"read", "rasterize", "describe">>
       /\ pc \in {"read", "rasterize", "describe", "write"} => ~Terminal(ci, Place)
       /\ Len(disk') = Len(disk)
       /\ \A i \in 1..Len(disk) : \A k \in Qualifying(i) :
            /\ disk'[i].files[k] # disk[i].files[k] =>
                  /\ pc = "write"
                  /\ ci = i
                  /\ Place = k
                  /\ Outcome("persisted", i, k) \in log'
            /\ Outcome("failed", i, k) \in log' =>
                  /\ disk'[i].files[k] = disk[i].files[k]
                  /\ Outcome("persisted", i, k) \notin log']_vars

\* A run reached its end in which an item without description failed, its
\* file as it was, and a later item of the category was written.
C13_Witness ==
    /\ pc = "done"
    /\ \E i \in 1..Len(disk) : \E k, m \in Qualifying(i) :
        /\ k < m
        /\ Outcome("failed", i, k) \in log
        /\ disk[i].files[k].content = "<svg>x"
        /\ Outcome("persisted", i, m) \in log
        /\ HasDescElement(disk[i].files[m].content)

\* C14: when a run has reached its end, the description of every catalog
\* entry of an item whose file holds a description element is the text
\* extractDescTag returns for the file.
C14_CatalogAgrees ==
    pc = "done" =>
        \A i \in 1..Len(disk) : \A k \in Qualifying(i) :
            \A n \in 1..Len(EntriesOf(i)) :
                (/\ EntriesOf(i)[n].name = basename(disk[i].files[k].name)
                 /\ hasDescTag(disk[i].files[k].content))
                => extractDescTag(disk[i].files[k].content)
                     = [match |-> TRUE, text |-> EntriesOf(i)[n].description]

\* C15: in a run of either program, a step changes no name and no listing;
\* it changes the content of a file only if the file is a qualifying item,
\* the item in hand, for which rasterize and describe have returned in this
\* run; only qualifying files are taken up as items; the catalog file
\* changes only in generateCatalog of the grouped driver, and a run of the
\* flat driver leaves it absent.
C15_Frame ==
    [][/\ Len(disk') = Len(disk)
       /\ \A i \in 1..Len(disk) :
            /\ disk'[i].name = disk[i].name
            /\ disk'[i].isDir = disk[i].isDir
            /\ Len(disk'[i].files) = Len(disk[i].files)
            /\ \A k \in 1..Len(disk[i].files) :
                /\ disk'[i].files[k].name = disk[i].files[k].name
                /\ disk'[i].files[k].content # disk[i].files[k].content =>
                      /\ EndsWithSvg(disk[i].files[k].name)
                      /\ ci = i
                      /\ Place = k
                      /\ calls = <<"read", "rasterize", "describe">>
       /\ pc \in {"read", "rasterize", "describe", "write"} => EndsWithSvg(Item.name)
       /\ \A e \in log' : EndsWithSvg(e[3])
       /\ catalog' # catalog => (GroupedMode /\ pc = "catalog")
       /\ FlatMode => (catalog' = Absent /\ catalogWrites' = 0)]_vars

\* A run of the flat driver reached its end over a directory holding a
\* file that does not qualify and an item that it wrote back: the first is
\* as it was, and there is no catalog.
C15_Witness ==
    /\ FlatMode
    /\ pc = "done"
    /\ Len(disk[1].files) = 2
    /\ ~EndsWithSvg(disk[1].files[1].name)
    /\ disk[1].files[1].content = "x"
    /\ <<"persisted", "", disk[1].files[2].name>> \in log
    /\ HasDescElement(disk[1].files[2].content)
    /\ catalog = Absent

\* One character, escaped on its own.
EscapeChar(c) ==
    CASE c = "&" -> "&amp;"
      [] c = "<" -> "&lt;"
      [] c = ">" -> "&gt;"
      [] OTHER -> c

\* Every character of t escaped on its own, in one pass from left to right.
RECURSIVE SinglePass(_)
SinglePass(t) ==
    IF t = "" THEN "" ELSE EscapeChar(Ch(t, 1)) \o SinglePass(Tail(t))

\* C16: the escaped form of a text is the text with each character
\* replaced on its own, in one pass, by &amp; for &, &lt; for <, &gt; for >
\* and itself otherwise; it holds no < and no >.
C16_NoDoubleEscaping ==
    texts = <<description>> =>
        /\ content = SinglePass(description)
        /\ \A n \in 1..Len(content) : Ch(content, n) \notin {"<", ">"}

\* The text <&; was escaped to &lt;&amp;; .
C16_Witness ==
    /\ texts = <<"<&;">>
    /\ description = "<&;"
    /\ content = "&lt;&amp;;"

====
